---- MODULE Spec2Model ----
(***************************************************************************)
(* The interactive shell of azclishell/app.py (AzInteractiveShell): the    *)
(* main loop run(), the sigil classifier _special_cases(), the scope       *)
(* manager handle_scoping_input()/set_scope(), the query injector          *)
(* handle_jmespath_query(), handle_cd() and the dispatcher cli_execute().  *)
(*                                                                         *)
(* A Python string is a sequence of one-character strings, so that strip,  *)
(* split, partition, replace, slicing and "in" are computed character by   *)
(* character as the code computes them.                                    *)
(***************************************************************************)
EXTENDS Integers, Sequences, FiniteSets, TLC

(***************************************************************************)
(* Python str operations used by app.py                                    *)
(***************************************************************************)
SP == " "

\* the element of a one-element set: The({f(x) : x \in {e}}) is f(e) with e
\* evaluated once
The(S) == CHOOSE x \in S : TRUE

\* s[i:j] with 1-based inclusive bounds, empty when i > j
Slice(s, i, j) == IF i > j THEN <<>> ELSE SubSeq(s, i, j)

\* s[n:] (0-based n as in Python)
From(s, n) == Slice(s, n + 1, Len(s))

\* s[:n]
Upto(s, n) == Slice(s, 1, IF n < Len(s) THEN n ELSE Len(s))

\* the number of spaces s starts with, and ends with
leading(s) ==
    IF \A k \in 1..Len(s) : s[k] = SP THEN Len(s)
    ELSE (CHOOSE k \in 1..Len(s) : s[k] # SP /\ \A j \in 1..(k - 1) : s[j] = SP) - 1

trailing(s) ==
    IF \A k \in 1..Len(s) : s[k] = SP THEN Len(s)
    ELSE Len(s) - (CHOOSE k \in 1..Len(s) : s[k] # SP /\ \A j \in (k + 1)..Len(s) : s[j] = SP)

\* str.lstrip(), str.rstrip(), str.strip()
lstrip(x) == The({From(s, leading(s)) : s \in {x}})

rstrip(x) == The({Upto(s, Len(s) - trailing(s)) : s \in {x}})

strip(x) == The({rstrip(s) : s \in {lstrip(x)}})

\* str.startswith(p)
startswith(x, y) == \E s \in {x}, p \in {y} : Len(p) <= Len(s) /\ Upto(s, Len(p)) = p

\* the 1-based places where sub occurs in s
occurrences(s, sub) == {k \in 1..(Len(s) - Len(sub) + 1) : Slice(s, k, k + Len(sub) - 1) = sub}

Min(S) == CHOOSE k \in S : \A j \in S : k <= j

\* str.find(sub) as a 1-based index, 0 when sub does not occur
find(x, y) ==
    The({IF occ = {} THEN 0 ELSE Min(occ) : occ \in {The({occurrences(s, sub) : s \in {x}, sub \in {y}})}})

\* sub in s
contains(s, sub) == find(s, sub) # 0

\* str.partition(sep): <<before, sep, after>>, or <<s, "", "">> without sep
partition(x, y) ==
    The({The({IF i = 0 THEN <<s, <<>>, <<>>>>
              ELSE <<Upto(s, i - 1), sep, From(s, i - 1 + Len(sep))>> : i \in {find(s, sep)}})
         : s \in {x}, sep \in {y}})

\* str.replace(old, new): every non-overlapping occurrence, left to right
RECURSIVE replace(_, _, _)
replace(x, y, z) ==
    The({The({IF i = 0 THEN s
              ELSE Upto(s, i - 1) \o new \o replace(From(s, i - 1 + Len(old)), old, new)
              : i \in {find(s, old)}})
         : s \in {x}, old \in {y}, new \in {z}})

\* str.split(): the maximal runs of non-whitespace characters
RECURSIVE split(_)
split(x) ==
    The({The({IF t = <<>> THEN <<>>
              ELSE IF i = 0 THEN <<t>>
              ELSE <<Upto(t, i - 1)>> \o split(From(t, i)) : i \in {find(t, <<SP>>)}})
         : t \in {lstrip(x)}})

\* sep.join(words)
RECURSIVE join(_, _)
join(x, y) ==
    The({IF words = <<>> THEN <<>>
         ELSE IF Len(words) = 1 THEN words[1]
         ELSE words[1] \o sep \o join(sep, Tail(words)) : sep \in {x}, words \in {y}})

\* str.split(' ', 1)[0]: the text before the first space
splitfirst(s) == partition(s, <<SP>>)[1]

\* str(n) of a natural number
RECURSIVE str_int(_)
str_int(n) == IF n < 10 THEN <<ToString(n)>> ELSE Append(str_int(n \div 10), ToString(n % 10))

\* str.lower() on the letters the model's lines use
lowerchar(c) == IF c = "A" THEN "a" ELSE IF c = "Z" THEN "z" ELSE c

lower(x) == The({[i \in 1..Len(s) |-> lowerchar(s[i])] : s \in {x}})

(***************************************************************************)
(* Literals of app.py and of its collaborators                             *)
(***************************************************************************)
\* SELECT_SYMBOL of azclishell.configuration: the scope marker is compared
\* with cmd_stripped[0:2] and the outside and exit-code markers with
\* cmd_stripped[0], which fixes their lengths.
SYM_outside == "#"

SYM_exit_code == "$"

SYM_query == <<"?", "?">>

SYM_example == <<":", ":">>

SYM_scope == <<"%", "%">>

SYM_unscope == <<".", ".">>

W_quit == <<"q", "u", "i", "t">>

W_exit == <<"e", "x", "i", "t">>

W_clear_history == <<"c", "l", "e", "a", "r", "-", "h", "i", "s", "t", "o", "r", "y">>

\* CLEAR_WORD = get_os_clear_screen_word()
CLEAR_WORD == <<"c", "l", "e", "a", "r">>

W_az == <<"a", "z">>

W_cd == <<"c", "d">>

W_version == <<"-", "-", "v", "e", "r", "s", "i", "o", "n">>

W_v == <<"-", "v">>

QUOTE == "\""

(***************************************************************************)
(* azclishell.util.parse_quotes: shlex.split(cmd), [] when shlex raises    *)
(* ValueError (an unclosed quotation).  Double quotes group characters and *)
(* are removed; the model's strings hold no backslash or single quote.     *)
(***************************************************************************)
RECURSIVE shlex_scan(_, _, _, _, _)
shlex_scan(s, inq, cur, open, acc) ==
    IF s = <<>> THEN
        IF inq THEN [ok |-> FALSE, args |-> <<>>]
        ELSE [ok |-> TRUE, args |-> IF open THEN Append(acc, cur) ELSE acc]
    ELSE IF Head(s) = QUOTE THEN shlex_scan(Tail(s), ~inq, cur, TRUE, acc)
    ELSE IF Head(s) = SP /\ ~inq THEN
        shlex_scan(Tail(s), FALSE, <<>>, FALSE, IF open THEN Append(acc, cur) ELSE acc)
    ELSE shlex_scan(Tail(s), inq, Append(cur, Head(s)), TRUE, acc)

parse_quotes(cmd) ==
    LET r == shlex_scan(cmd, FALSE, <<>>, FALSE, <<>>)
    IN  IF r.ok THEN r.args ELSE <<>>

\* json.dumps of a str without quote or backslash
json_dumps_str(s) == <<QUOTE>> \o s \o <<QUOTE>>

(***************************************************************************)
(* The command tree of the completer and azclishell.command_tree.in_tree:  *)
(* the words of the prefix are followed from the root.                     *)
(***************************************************************************)
command_tree == {<<>>, << <<"g">> >>, << <<"g">>, <<"v">> >>}

in_tree(tree, cmd_args) == split(cmd_args) \in tree

(***************************************************************************)
(* The engine's results and jmespath                                       *)
(***************************************************************************)
\* self.last: "None", or the response whose .result is the value; R1 is the
\* object {"a": 1}, R0 the empty list (not None, but false in a condition)
Results == {"R1", "R0"}

truthy(res) == res = "R1"

\* str(self.last.result), without space or quote
str_result(res) == IF res = "R1" THEN <<"{", "a", "}">> ELSE <<"[", "]">>

\* jmespath.search(expression, data).  An expression with an unclosed
\* bracket does not parse (ParseError); a call of a function fails when it
\* is evaluated (JMESPathTypeError, UnknownFunctionError: JMESPathError but
\* not ParseError; every JMESPathError is a ValueError); a field name
\* selects the field, null when the data has none of that name.
jmespath_search(expression, data) ==
    IF expression = <<>> \/ contains(expression, <<"[">>) THEN
        [kind |-> "ParseError", val |-> <<>>]
    ELSE IF contains(expression, <<"(">>) THEN
        [kind |-> "JMESPathError", val |-> <<>>]
    ELSE IF expression = <<"a">> /\ data = "R1" THEN
        [kind |-> "ok", val |-> <<"1">>]
    ELSE [kind |-> "ok", val |-> <<"N", "o", "n", "e">>]

\* the exceptions run() catches with "except (KeyboardInterrupt, ValueError)"
CaughtByRun == {"KeyboardInterrupt", "ValueError", "JMESPathError"}

(***************************************************************************)
(* State of the shell                                                      *)
(***************************************************************************)
VARIABLES
    default_command,  \* self.default_command
    last,             \* self.last: "None" or the stored response
    last_exit,        \* self.last_exit
    cwd,              \* the working directory of the process
    output,           \* self.output is set (output_custom was given)
    app,              \* the attribute self.app exists (__init__ does not set it)
    pc,               \* where run() is: "prompt", "done", "example_repl", "exited", "crashed"
    text,             \* the line cli.run() returned in this iteration
    dispatched,       \* what this iteration handed over: [to, cmd]
    printed,          \* what this iteration printed, in order
    raised,           \* the exception this iteration raised out of the loop body
    engine,           \* what cli_ctx.invoke did in this iteration, if it was called
    popen,            \* the exit status of the child of Popen in this iteration, if any
    stepper,          \* example_repl: text, cmd and start_index while the sub-REPL runs
    submission,       \* what example_cli.run() returned last in the sub-REPL
    history_appended, \* this iteration appended the line to self.history
    query_echo,       \* the query printed last, with no other line since
    scope_stack,      \* default_command before each narrowing still in force
    restored,         \* how the widenings of this iteration compare with scope_stack
    rows,             \* the rows of the window (get_window_dim)
    list_examples,    \* the examples of the command typed: [(header, body), ...]
    section,          \* self._section, the page of the example pane
    section_value,    \* the parameter section_value of the running _space_examples
    example_docs,     \* what _space_examples returned last
    render_pc,        \* where _space_examples is: "idle", or "clamp" in its while loop
    frame,            \* its locals num_newline and len_of_excerpt while it is in that loop
    passes,           \* the passes of that while loop, modulo 2
    completer,        \* self.completer: the provider of completions and help
    refresh_cli,      \* self.refresh_cli
    cli_completer,    \* the completer that self._cli was created with; "None": no self._cli
    cli_pc,           \* where the property cli is: "out", or "store" before line 164
    loader,           \* the thread of restart_completer: its position and what it builds
    curr_thread,      \* self.curr_thread: the thread of self.app.execute, its arguments
    progress_thread,  \* the thread of progress_view
    toolbar,          \* what _update_toolbar put in the bottom toolbar last
    user_feedback     \* self.user_feedback

vars == <<default_command, last, last_exit, cwd, output, app, pc, text, dispatched,
          printed, raised, engine, popen, stepper, submission, history_appended,
          query_echo, scope_stack, restored, rows, list_examples, section, section_value,
          example_docs, render_pc, frame, passes, completer, refresh_cli, cli_completer,
          cli_pc, loader, curr_thread, progress_thread, toolbar, user_feedback>>

\* the state of the read-eval loop, and the state of the example pane
shell_vars == <<default_command, last, last_exit, cwd, output, app, pc, text, dispatched,
                printed, raised, engine, popen, stepper, submission, history_appended,
                query_echo, scope_stack, restored>>

pane_vars == <<rows, list_examples, section, section_value, example_docs, render_pc, frame,
               passes>>

\* the state the loader thread shares with the main loop, and the threads of
\* a command run with its progress shown
loader_vars == <<completer, refresh_cli, cli_completer, cli_pc, loader>>

exec_vars == <<curr_thread, progress_thread>>

thread_vars == <<completer, refresh_cli, cli_completer, cli_pc, loader, curr_thread,
                 progress_thread>>

toolbar_vars == <<toolbar, user_feedback>>

Nothing == [to |-> "none", cmd |-> <<>>]

(***************************************************************************)
(* handle_cd                                                               *)
(***************************************************************************)
HOME == <<"/", "h">>

\* the directories os.chdir accepts
Directories == {HOME}

\* os.path.expandvars(os.path.expanduser(path)) for paths without "$"
expanduser(path) == IF startswith(path, <<"~">>) THEN HOME \o From(path, 1) ELSE path

\* the result of handle_cd(cmd): the directory and what was printed
handle_cd(cmd) ==
    IF Len(cmd) # 2 THEN [cwd |-> cwd, printed |-> << <<"Invalid syntax: cd path", <<>>>> >>]
    ELSE LET path == expanduser(cmd[2])
         IN  IF path \in Directories THEN [cwd |-> path, printed |-> <<>>]
             ELSE [cwd |-> cwd, printed |-> << <<"cd: ", path>> >>]

(***************************************************************************)
(* set_scope and handle_scoping_input                                      *)
(***************************************************************************)
set_scope_unspaced(dc, value) == dc \o value

\* self.default_command after set_scope(value)
set_scope(dc, value) == IF dc # <<>> THEN dc \o <<SP>> \o value ELSE dc \o value

\* self.default_command after the unscope branch (lines 610-614)
unscope(dc) ==
    LET words == split(dc)
        popped == <<SP>> \o join(<<SP>>, Upto(words, Len(words) - 1))
    IN  IF strip(popped) = <<>> THEN strip(popped) ELSE popped

\* one pass of the while loop of handle_scoping_input over default_split[0]
scope_target(value, txt, acc) ==
    LET tree_val == IF acc.dc # <<>> THEN acc.dc \o <<SP>> \o value ELSE value
    IN  IF in_tree(command_tree, strip(tree_val)) THEN
            [dc |-> set_scope(acc.dc, value),
             printed |-> Append(acc.printed, <<"defaulting: ", value>>)]
        ELSE IF SYM_unscope = value /\ Len(split(acc.dc)) > 0 THEN
            [dc |-> unscope(acc.dc),
             printed |-> Append(acc.printed,
                                <<"unscoping: ", split(acc.dc)[Len(split(acc.dc))]>>)]
        ELSE IF ~contains(txt, SYM_unscope) THEN
            [dc |-> acc.dc,
             printed |-> Append(acc.printed, <<"Scope must be a valid command", <<>>>>)]
        ELSE acc

RECURSIVE scope_loop(_, _, _)
scope_loop(default_split, txt, acc) ==
    IF default_split = <<>> THEN acc
    ELSE scope_loop(Tail(default_split), txt, scope_target(default_split[1], txt, acc))

\* handle_scoping_input(continue_flag, cmd, text): default_command and the output
handle_scoping_input(txt) ==
    LET default_split == split(partition(txt, SYM_scope)[3])
    IN  IF default_split = <<>> THEN
            [dc |-> <<>>, printed |-> << <<"unscoping all", <<>>>> >>]
        ELSE scope_loop(default_split, txt, [dc |-> default_command, printed |-> <<>>])

(***************************************************************************)
(* handle_jmespath_query                                                   *)
(***************************************************************************)
\* sub_result(arg): the argument with the text from the query symbol on
\* replaced by str() of the query's value, as json.dumps writes it
sub_result(arg) ==
    LET i == find(arg, SYM_query)
        match == From(arg, i - 1)
        q == IF match = SYM_query THEN [kind |-> "ok", val |-> str_result(last)]
             ELSE jmespath_search(From(match, Len(SYM_query)), last)
    IN  IF i = 0 THEN [kind |-> "ok", val |-> json_dumps_str(arg)]
        ELSE IF q.kind = "ok" THEN
            [kind |-> "ok", val |-> json_dumps_str(Upto(arg, i - 1) \o q.val)]
        ELSE [kind |-> q.kind, val |-> <<>>]

\* the first exception map(sub_result, args) raises, "ok" when there is none
RECURSIVE sub_error(_)
sub_error(args) ==
    IF args = <<>> THEN "ok"
    ELSE IF sub_result(args[1]).kind # "ok" THEN sub_result(args[1]).kind
    ELSE sub_error(Tail(args))

\* handle_jmespath_query(args): what it prints, the exception that leaves it,
\* and the command it passes to cli_execute (execute is FALSE when it passes none)
quiet == [printed |-> <<>>, raised |-> "none", execute |-> FALSE, cmd |-> <<>>]

invalid == [quiet EXCEPT !.printed = << <<"Invalid Query Input: ", <<>>>> >>]

\* lines 541-547: the line is one argument
print_query_forwards(arg) == [quiet EXCEPT !.execute = TRUE, !.cmd = arg]

print_query(arg) ==
    LET q == jmespath_search(From(arg, Len(SYM_query)), last)
    IN  IF arg = SYM_query THEN
            [quiet EXCEPT !.printed = << <<"json", str_result(last)>> >>]
        ELSE IF startswith(arg, SYM_query) THEN
            IF q.kind = "ok" THEN [quiet EXCEPT !.printed = << <<"json", q.val>> >>]
            ELSE IF q.kind = "ParseError" THEN invalid
            ELSE [quiet EXCEPT !.raised = q.kind]
        \* result is not bound when print() reads it
        ELSE [quiet EXCEPT !.raised = "UnboundLocalError"]

handle_jmespath_query(args) ==
        IF Len(args) = 1 THEN print_query(args[1])
        ELSE IF startswith(args[1], SYM_query) THEN
            [quiet EXCEPT !.printed = << <<"Usage Error: ", <<>>>> >>]
        ELSE IF sub_error(args) = "ok" THEN
            [quiet EXCEPT !.execute = TRUE,
                          !.cmd = join(<<SP>>, [k \in 1..Len(args) |-> sub_result(args[k]).val])]
        ELSE IF sub_error(args) = "ParseError" THEN invalid
        ELSE [quiet EXCEPT !.raised = sub_error(args)]

(***************************************************************************)
(* handle_example and example_repl                                         *)
(***************************************************************************)
\* self.completer.command_examples: command -> [(header, body), ...]
command_examples ==
    [c \in {<<"g", SP, "v">>} |->
        << <<"h", <<"a", "z", SP, "g", SP, "v">> >>,
           <<"h", <<"a", "z", SP, "g", SP, "v", SP, "-", "n", SP, "N", SP, "-", "r", SP, "R">> >> >>]

Digits == {"0", "1", "2", "3", "4", "5", "6", "7", "8", "9"}

\* int(num) raises ValueError unless num is a number
is_int(num) == num # <<>> /\ \A k \in 1..Len(num) : num[k] \in Digits

digit_value(d) == CHOOSE n \in 0..9 : ToString(n) = d

RECURSIVE int(_)
int(num) ==
    IF num = <<>> THEN 0 ELSE 10 * int(Upto(num, Len(num) - 1)) + digit_value(num[Len(num)])

\* the loop of handle_example over example.split(): example_no_fill and
\* starting_index (-1 stands for None)
RECURSIVE example_scan(_, _, _)
example_scan(words, counter, acc) ==
    IF words = <<>> THEN acc
    ELSE LET word == words[1]
             a1 == IF acc.flag_fill
                   THEN [acc EXCEPT !.no_fill = acc.no_fill \o word \o <<SP>>] ELSE acc
             a2 == IF startswith(word, <<"-">>)
                   THEN [a1 EXCEPT !.no_fill = a1.no_fill \o word \o <<SP>>,
                                   !.starting_index =
                                       IF a1.starting_index \in {-1, 0} THEN counter
                                       ELSE a1.starting_index,
                                   !.flag_fill = FALSE]
                   ELSE a1
         IN  example_scan(Tail(words), counter + 1, a2)

example_keeps_az(example) == example

\* line 412: example.replace('az', '')
example_without_az(example) == replace(example, W_az, <<>>)

\* handle_example(text, continue_flag): the command, the flag, what it prints,
\* the exception it leaves the caller with, whether the sub-REPL starts, and
\* the start_index it starts with
handle_example(txt, continue_flag) ==
    LET parts == partition(txt, SYM_example)
        cmd == rstrip(parts[1])
        num == strip(parts[3])
        known == cmd \in DOMAIN command_examples
        none == [cmd |-> <<>>, cont |-> continue_flag, printed |-> <<>>,
                 raised |-> "none", repl |-> FALSE, start |-> 0]
        example == IF known THEN example_without_az(command_examples[cmd][int(num)][2])
                   ELSE <<>>
        scan == example_scan(split(example), 0,
                             [no_fill |-> <<>>, starting_index |-> -1, flag_fill |-> TRUE])
    IN  IF ~is_int(num) THEN
            \* returns "", which "cmd, continue_flag = ..." cannot unpack
            [none EXCEPT !.printed = << <<"An Integer should follow the colon", <<>>>> >>,
                         !.raised = "ValueError"]
        ELSE IF known /\ ~(int(num) - 1 >= 0 /\ int(num) - 1 < Len(command_examples[cmd])) THEN
            [none EXCEPT !.printed = << <<"Invalid example number", <<>>>> >>, !.cont = TRUE]
        ELSE IF scan.starting_index \in {-1, 0} THEN
            [none EXCEPT !.cmd = scan.no_fill]
        ELSE [none EXCEPT !.cmd = scan.no_fill, !.repl = TRUE, !.start = scan.starting_index]

(***************************************************************************)
(* _special_cases                                                          *)
(***************************************************************************)
\* os.path.join(self.config.config_dir(), self.config.get_history())
history_file == <<"/", "c", "/", "h">>

\* 'echo -n "" >' + the history file
truncate_history == <<"e", "c", "h", "o", SP, "-", "n", SP, QUOTE, QUOTE, SP, ">">> \o history_file

\* the call self.config.config_dir() of line 492: it raises TypeError when
\* config_dir is the str that line 109 and lines 634-639 join into paths, and
\* returns the directory when config_dir is a method
ConfigDirCalls(line) ==
    IF strip(line) = W_clear_history THEN {"TypeError", "returns"} ELSE {"returns"}

\* the elif chain of lines 498-531, entered when cmd_stripped is not empty;
\* r holds the flags and cmd as lines 475-496 left them
outside_case_forwards_cd(cmd_stripped, r) ==
    [r EXCEPT !.cmd = From(cmd_stripped, 1), !.outside = TRUE]

\* lines 499-504: the line starts with the outside marker
outside_case(cmd_stripped, r) ==
    LET cmd == From(cmd_stripped, 1)
        cd == handle_cd(parse_quotes(cmd))
    IN  IF strip(cmd) # <<>> /\ split(cmd)[1] = W_cd THEN
            [r EXCEPT !.cmd = cmd, !.outside = TRUE, !.cont = TRUE,
                      !.cwd = cd.cwd, !.printed = cd.printed]
        ELSE [r EXCEPT !.cmd = cmd, !.outside = TRUE]

sigil_chain(args, cmd_stripped, r) ==
    LET cmd == r.cmd
        query == handle_jmespath_query(args)
        example == handle_example(cmd, r.cont)
        scoping == handle_scoping_input(cmd_stripped)
    IN  IF cmd_stripped[1] = SYM_outside THEN outside_case(cmd_stripped, r)
        ELSE IF cmd_stripped[1] = SYM_exit_code THEN
            [r EXCEPT !.cont = TRUE,
                      !.printed = << <<IF last_exit = 0 THEN "Success" ELSE "Failure",
                                       str_int(last_exit)>> >>]
        ELSE IF contains(cmd_stripped, SYM_query) /\ last # "None" /\ truthy(last) THEN
            [r EXCEPT !.cont = TRUE, !.printed = query.printed, !.raised = query.raised,
                      !.execute = query.execute, !.inject = query.cmd,
                      !.printed_query = (Len(args) = 1 /\ startswith(args[1], SYM_query))]
        ELSE IF args = <<>> THEN [r EXCEPT !.raised = "IndexError"]
        ELSE IF args[1] = W_version \/ args[1] = W_v THEN
            [r EXCEPT !.cont = TRUE, !.printed = << <<"version", <<>>>> >>]
        ELSE IF contains(cmd, <<"|">>) \/ contains(cmd, <<">">>) THEN
            [r EXCEPT !.outside = TRUE, !.cmd = W_az \o <<SP>> \o cmd]
        ELSE IF contains(cmd, SYM_example) THEN
            [r EXCEPT !.cmd = example.cmd, !.cont = example.cont,
                      !.printed = example.printed, !.raised = example.raised,
                      !.repl = example.repl, !.start = example.start]
        ELSE IF Len(cmd_stripped) > 2 /\ SYM_scope = Upto(cmd_stripped, 2) THEN
            [r EXCEPT !.cont = TRUE, !.dc = scoping.dc, !.printed = scoping.printed,
                      !.scoped = TRUE]
        ELSE r

\* lines 479-481: the first word of the line is the engine's name
strip_az(line) ==
    IF strip(line) # <<>> /\ lower(splitfirst(line)) = W_az
    THEN join(<<SP>>, Tail(split(line))) ELSE line

prefix_default_unspaced(cmd) == default_command \o cmd

\* lines 482-483
prefix_default(cmd) ==
    IF default_command # <<>> THEN default_command \o <<SP>> \o cmd ELSE cmd

\* _special_cases(cmd, outside): break_flag, continue_flag, outside and cmd,
\* with what the call did to the shell: default_command (dc), the working
\* directory, its output, the exception that leaves it, the command
\* handle_jmespath_query passes to cli_execute (execute, inject), and whether
\* handle_scoping_input ran (scoped) or lines 543-547 printed a query
\* (printed_query)
special_cases(line, config_dir) ==
    LET args == parse_quotes(line)
        cmd_stripped == strip(line)
        cmd2 == prefix_default(strip_az(line))
        r0 == [brk |-> FALSE, cont |-> FALSE, outside |-> FALSE, cmd |-> cmd2,
               dc |-> default_command, cwd |-> cwd, printed |-> <<>>, raised |-> "none",
               execute |-> FALSE, inject |-> <<>>, repl |-> FALSE, scoped |-> FALSE,
               printed_query |-> FALSE, start |-> 0]
        r1 == IF cmd_stripped = W_quit \/ cmd_stripped = W_exit THEN [r0 EXCEPT !.brk = TRUE]
              ELSE IF cmd_stripped = W_clear_history THEN
                  IF config_dir = "TypeError" THEN [r0 EXCEPT !.raised = "TypeError"]
                  ELSE [r0 EXCEPT !.outside = TRUE, !.cmd = truncate_history]
              ELSE IF cmd_stripped = CLEAR_WORD THEN
                  [r0 EXCEPT !.outside = TRUE, !.cmd = CLEAR_WORD]
              ELSE r0
    IN  IF r1.raised # "none" \/ cmd_stripped = <<>> THEN r1
        ELSE sigil_chain(args, cmd_stripped, r1)

(***************************************************************************)
(* cli_execute                                                             *)
(***************************************************************************)
\* what self.cli_ctx.invoke(args) does: it returns a response whose result
\* is None ("Null") or a value; it raises an error; it
\* asks the process to exit, with a number, with no code (sys.exit()) or with
\* a message (sys.exit("...")); or the user interrupts it
ExitCodes == {2}

Outcomes ==
    [kind : {"return"}, result : {"Null"} \cup Results, code : {0}]
    \cup [kind : {"raise", "exit_none", "exit_str", "interrupt"}, result : {"Null"}, code : {0}]
    \cup [kind : {"exit"}, result : {"Null"}, code : ExitCodes]

\* the engine is not called
NotInvoked == [kind |-> "none", result |-> "Null", code |-> 0]

\* handle_exception(ex): the exit code of an error
handle_exception == 1

\* lines 659-669: the result is not None
show_result(o) ==
    IF output THEN
        [last |-> last, last_exit |-> 0, raised |-> "none",
         printed |-> << <<"output.write", <<>>>> >>]
    ELSE IF ~app THEN
        \* self.app raises AttributeError, which line 671 catches
        [last |-> last, last_exit |-> handle_exception, raised |-> "none", printed |-> <<>>]
    ELSE [last |-> o.result, last_exit |-> 0, raised |-> "none",
          printed |-> << <<"OutputProducer.out", <<>>>> >>]

\* cli_execute(cmd) when the engine does o: self.last, self.last_exit, the
\* exception that leaves cli_execute and what is shown
cli_execute(cmd, o) ==
    LET same == [last |-> last, last_exit |-> last_exit, raised |-> "none", printed |-> <<>>]
    IN  IF o.kind = "return" THEN
            IF o.result \in Results THEN show_result(o)
            ELSE [same EXCEPT !.last_exit = 0]
        ELSE IF o.kind = "raise" THEN [same EXCEPT !.last_exit = handle_exception]
        ELSE IF o.kind = "exit" THEN [same EXCEPT !.last_exit = o.code]
        ELSE IF o.kind = "exit_none" THEN [same EXCEPT !.raised = "TypeError"]
        ELSE IF o.kind = "exit_str" THEN [same EXCEPT !.raised = "ValueError"]
        ELSE [same EXCEPT !.raised = "KeyboardInterrupt"]

W_progress == <<"-", "-", "p", "r", "o", "g", "r", "e", "s", "s">>

\* line 641: '--progress' in args
progress_mode(cmd) ==
    \E args \in {parse_quotes(cmd)} : \E k \in 1..Len(args) : args[k] = W_progress

\* line 642: args.remove('--progress') removes the first one
remove_progress(args) ==
    LET first == CHOOSE k \in 1..Len(args) :
                     args[k] = W_progress /\ \A j \in 1..(k - 1) : args[j] # W_progress
    IN  [k \in 1..(Len(args) - 1) |-> IF k < first THEN args[k] ELSE args[k + 1]]

W_feedback == <<"f", "e", "e", "d", "b", "a", "c", "k">>

\* line 630: len(args) > 0 and args[0] == 'feedback'
feedback_command(cmd) ==
    \E args \in {parse_quotes(cmd)} : args # <<>> /\ args[1] = W_feedback

\* no thread of self.app.execute
NoThread == [state |-> "None", args |-> <<>>, outcome |-> NotInvoked]

progress_execute_stores(cmd) ==
    [last |-> "R1", last_exit |-> 0, raised |-> "none", printed |-> <<>>]

\* lines 641-659 when '--progress' is in args: the threads are started and
\* result is None; without self.app, line 644 raises AttributeError, which
\* line 671 catches
progress_execute(cmd) ==
    IF app THEN [last |-> last, last_exit |-> 0, raised |-> "none", printed |-> <<>>]
    ELSE [last |-> last, last_exit |-> handle_exception, raised |-> "none", printed |-> <<>>]

(***************************************************************************)
(* The lines the user submits                                              *)
(***************************************************************************)
MaxBlank == 2

MaxScopeTargets == 2

spaces(n) == [k \in 1..n |-> SP]

\* the targets of a scope line: commands of the tree, a word that is none,
\* and the unscope marker
ScopeWords == {<<"g">>, <<"v">>, <<"x">>, SYM_unscope}

TargetLists == UNION {[1..n -> ScopeWords] : n \in 1..MaxScopeTargets}

BlankLines == {spaces(n) : n \in 0..MaxBlank}

CommandLines ==
    {<<"v">>, <<SP, "v", SP>>, <<"v", SP, SP, "l">>, <<"v", SP, QUOTE, "l", SP, "m", QUOTE>>}

AzLines ==
    {W_az \o <<SP, "v">>, <<"A", "Z", SP, SP, "v">>, W_az, <<SP>> \o W_az \o <<SP, "v">>,
     W_az \o <<SP>> \o W_quit}

LiteralLines ==
    {W_quit, W_exit, <<SP>> \o W_quit \o <<SP>>, W_clear_history, CLEAR_WORD,
     W_version, W_v \o <<SP, "x">>, <<SYM_exit_code>>}

OutsideLines ==
    {<<SYM_outside, "l">>, <<SYM_outside>>,
     <<SYM_outside>> \o W_cd \o <<SP, "~">>,
     <<SYM_outside>> \o W_cd \o <<SP, "/", "n">>,
     <<SYM_outside>> \o W_cd,
     <<SYM_outside>> \o W_cd \o <<SP, "~", SP, "~">>,
     <<SP, SYM_outside, SP>> \o W_cd \o <<SP, "~">>,
     <<SYM_outside>> \o W_cd \o <<"x">>}

QueryLines ==
    {SYM_query, SYM_query \o <<"a">>, SYM_query \o <<"[">>,
     SYM_query \o <<"(">>, SYM_query \o <<"?", "b", "[">>,
     <<"v">> \o SYM_query \o <<"[">>,
     <<"v", SP>> \o SYM_query \o <<"a">>, <<"v", SP>> \o SYM_query \o <<"[">>,
     <<"v", SP>> \o SYM_query \o <<"(">>, <<"v", SP>> \o SYM_query,
     SYM_query \o <<SP, "a">>}

PipeLines == {<<"v", "|", "w">>, <<"v", ">", "f">>}

ExampleLines ==
    {<<"v">> \o SYM_example \o <<"1">>, <<"v">> \o SYM_example \o <<"9">>,
     <<"v">> \o SYM_example \o <<"x">>, <<"x">> \o SYM_example \o <<"1">>,
     <<"v">> \o SYM_example \o <<"2">>, <<"g", SP, "v">> \o SYM_example \o <<"2">>,
     <<"g", SP, "v">> \o SYM_example \o <<"1">>}

ScopeLines ==
    {SYM_scope, SYM_scope \o <<SP, "g">>}
    \cup {SYM_scope \o join(<<SP>>, targets) : targets \in TargetLists}

Lines ==
    BlankLines \cup CommandLines \cup AzLines \cup LiteralLines \cup OutsideLines
    \cup QueryLines \cup PipeLines \cup ExampleLines \cup ScopeLines

(***************************************************************************)
(* run                                                                     *)
(***************************************************************************)
\* scope_stack and restored after the targets of a scope line: a narrowing
\* saves the default_command it started from, a widening is compared with
\* the value saved by the narrowing it undoes
RECURSIVE scope_history(_, _, _)
scope_history(default_split, txt, h) ==
    IF default_split = <<>> THEN h
    ELSE LET after == scope_target(default_split[1], txt, [dc |-> h.dc, printed |-> <<>>]).dc
             n == Len(h.stack)
             h1 == IF Len(split(after)) > Len(split(h.dc)) THEN
                       [h EXCEPT !.dc = after, !.stack = Append(h.stack, h.dc)]
                   ELSE IF Len(split(after)) < Len(split(h.dc)) /\ n > 0 THEN
                       [dc |-> after, stack |-> Upto(h.stack, n - 1),
                        restored |-> IF after # h.stack[n] THEN "differs"
                                     ELSE IF h.restored = "none" THEN "exact"
                                     ELSE h.restored]
                   ELSE [h EXCEPT !.dc = after]
         IN  scope_history(Tail(default_split), txt, h1)

scope_ghost(line) ==
    LET default_split == split(partition(strip(line), SYM_scope)[3])
        h0 == [dc |-> default_command, stack |-> scope_stack, restored |-> "none"]
    IN  IF default_split = <<>> THEN [h0 EXCEPT !.dc = <<>>, !.stack = <<>>]
        ELSE scope_history(default_split, strip(line), h0)

NoEcho == [line |-> <<>>, printed |-> <<>>, raised |-> "none", again |-> FALSE]

\* example_repl is not running
NoStepper == [text |-> <<>>, cmd |-> <<>>, start_index |-> 0]

NoSubmission == [kind |-> "none", text |-> <<>>]

\* lines 436-438: example_repl(text, example, start_index, continue_flag) enters
\* the sub-REPL
enter_example_repl(txt, start_index) ==
    [text |-> txt, start_index |-> start_index + 1,
     cmd |-> join(<<SP>>, Upto(split(txt), start_index + 1))]

\* the end of one pass of the loop of run(), or its stop in example_repl
Finish(line, r, e, o, disp, appended) ==
    /\ text' = line
    /\ stepper' = IF r.repl /\ r.raised = "none" THEN enter_example_repl(r.cmd, r.start)
                  ELSE NoStepper
    /\ submission' = NoSubmission
    /\ engine' = o
    /\ default_command' = r.dc
    /\ cwd' = r.cwd
    /\ last' = e.last
    /\ last_exit' = e.last_exit
    /\ dispatched' = disp
    /\ printed' = r.printed \o e.printed
    /\ raised' = IF r.raised # "none" THEN r.raised ELSE e.raised
    /\ history_appended' = (appended /\ raised' = "none")
    /\ pc' = IF raised' \in CaughtByRun THEN "done"
             ELSE IF raised' # "none" THEN "crashed"
             ELSE IF r.brk THEN "exited"
             ELSE IF r.repl THEN "example_repl"
             ELSE "done"
    /\ scope_stack' = IF r.scoped THEN scope_ghost(line).stack ELSE scope_stack
    /\ restored' = IF r.scoped THEN scope_ghost(line).restored ELSE "none"
    /\ query_echo' = IF r.printed_query
                     THEN [line |-> line, printed |-> printed', raised |-> raised',
                           again |-> query_echo.line = line]
                     ELSE NoEcho
    /\ UNCHANGED <<output, app>>
    /\ UNCHANGED pane_vars
    /\ UNCHANGED loader_vars
    /\ UNCHANGED toolbar

\* the exit statuses of the child that subprocess.Popen(cmd, shell=True) runs
\* (the empty command exits with 0)
ShellExits == {0, 1}

\* Popen is not called
NotRun == [ran |-> FALSE, code |-> 0]

\* what cli_execute leaves when it is not called
NotExecuted == [last |-> last, last_exit |-> last_exit, raised |-> "none", printed |-> <<>>]

\* line 723: cli_execute(cmd), which runs the command in the engine, or
\* starts a thread that does and a thread that shows its progress
Dispatch(line, r, cmd) ==
    /\ user_feedback' = (user_feedback /\ ~feedback_command(cmd))
    /\ IF progress_mode(cmd) THEN
           /\ Finish(line, r, progress_execute(cmd), NotInvoked,
                     IF app THEN [to |-> "thread", cmd |-> cmd] ELSE Nothing, r.dc = <<>>)
           /\ IF app THEN
                  /\ curr_thread' = [state |-> "running",
                                     args |-> remove_progress(parse_quotes(cmd)),
                                     outcome |-> NotInvoked]
                  /\ progress_thread' = "running"
              ELSE UNCHANGED exec_vars
       ELSE
           /\ \E o \in Outcomes :
                  Finish(line, r, cli_execute(cmd, o), o, [to |-> "engine", cmd |-> cmd],
                         r.dc = <<>>)
           /\ UNCHANGED exec_vars

\* one pass of the loop of run(): cli.run() returns the line, _special_cases
\* classifies it, and the command goes to the OS shell or to cli_execute (the
\* thread of run() is not inside the property cli then)
Input(line) ==
    /\ pc = "prompt"
    /\ cli_pc = "out"
    /\ \E config_dir \in ConfigDirCalls(line) :
         \E r \in {special_cases(line, config_dir)} :
           IF line = <<>> THEN
               /\ Finish(line, [r EXCEPT !.cmd = <<>>], NotExecuted, NotInvoked, Nothing, FALSE)
               /\ popen' = NotRun
               /\ UNCHANGED exec_vars
               /\ UNCHANGED user_feedback
           ELSE IF r.raised # "none" \/ r.brk THEN
               /\ Finish(line, r, NotExecuted, NotInvoked, Nothing, r.dc = <<>>)
               /\ popen' = NotRun
               /\ UNCHANGED exec_vars
               /\ UNCHANGED user_feedback
           ELSE IF r.execute THEN
               /\ Dispatch(line, r, r.inject)
               /\ popen' = NotRun
           ELSE IF r.cont \/ r.repl THEN
               /\ Finish(line, r, NotExecuted, NotInvoked, Nothing, r.dc = <<>>)
               /\ popen' = NotRun
               /\ UNCHANGED exec_vars
               /\ UNCHANGED user_feedback
           ELSE IF r.outside THEN
               /\ Finish(line, r, NotExecuted, NotInvoked, [to |-> "os", cmd |-> r.cmd],
                         r.dc = <<>>)
               /\ \E status \in (IF r.cmd = <<>> THEN {0} ELSE ShellExits) :
                      popen' = [ran |-> TRUE, code |-> status]
               /\ UNCHANGED exec_vars
               /\ UNCHANGED user_feedback
           ELSE
               /\ Dispatch(line, r, r.cmd)
               /\ popen' = NotRun

\* the loop of run() comes back to cli.run(): the locals of the pass are gone
Prompt ==
    /\ pc = "done"
    /\ pc' = "prompt"
    /\ text' = <<>>
    /\ dispatched' = Nothing
    /\ printed' = <<>>
    /\ raised' = "none"
    /\ engine' = NotInvoked
    /\ popen' = NotRun
    /\ stepper' = NoStepper
    /\ submission' = NoSubmission
    /\ history_appended' = FALSE
    /\ restored' = "none"
    /\ UNCHANGED <<default_command, last, last_exit, cwd, output, app, query_echo,
                   scope_stack>>
    /\ UNCHANGED pane_vars
    /\ UNCHANGED thread_vars
    /\ UNCHANGED toolbar_vars

\* cli.run() returns None on Control D: document.text raises AttributeError
\* and line 707 leaves the loop
EndOfInput ==
    /\ pc = "prompt"
    /\ cli_pc = "out"
    /\ pc' = "exited"
    /\ UNCHANGED <<default_command, last, last_exit, cwd, output, app, text, dispatched,
                   printed, raised, engine, popen, stepper, submission, history_appended,
                   query_echo, scope_stack, restored>>
    /\ UNCHANGED pane_vars
    /\ UNCHANGED thread_vars
    /\ UNCHANGED toolbar_vars

\* lines 448-449: the buffer example_repl presents
presented(cmd) ==
    IF default_command # <<>> THEN replace(cmd, default_command \o <<SP>>, <<>>) ELSE cmd

\* what the user may submit when shown is presented: the buffer as it is, the
\* buffer with a value typed after it, one word, another word, and two other
\* words
AnswerKinds == {"same", "value", "word", "other", "words"}

answer_text(kind, shown) ==
    IF kind = "same" THEN shown
    ELSE IF kind = "value" THEN shown \o <<SP, "X">>
    ELSE IF kind = "word" THEN <<"X">>
    ELSE IF kind = "other" THEN <<"Z">>
    ELSE <<"g", SP, "Y">>

\* lines 461-464: the submission differs and has more than one word
advance(st, shown, answer) ==
    LET words == split(st.text)
        start_index == st.start_index + 1
        \* u' '.join(text.split()[start_index:start_index + 1])
        flag == IF start_index + 1 <= Len(words) THEN words[start_index + 1] ELSE <<>>
    IN  [st EXCEPT !.start_index = start_index,
                   !.cmd = shown \o <<SP>> \o split(answer)[Len(split(answer))] \o <<SP>>
                           \o flag]

\* one pass of the while loop of example_repl (lines 447-464) on the
\* submission, and, when the loop ends, the return to run(), which hands cmd
\* to cli_execute
ExampleAnswer(kind) ==
    /\ pc = "example_repl"
    /\ UNCHANGED pane_vars
    /\ UNCHANGED thread_vars
    /\ UNCHANGED toolbar_vars
    /\ \E shown \in {presented(stepper.cmd)} : \E answer \in {answer_text(kind, shown)} :
         /\ submission' = [kind |-> "text", text |-> answer]
         /\ IF answer = shown \/ Len(split(answer)) <= 1 THEN
                /\ stepper' = [stepper EXCEPT !.cmd = shown]
                /\ UNCHANGED <<default_command, last, last_exit, cwd, output, app, pc, text,
                               dispatched, printed, raised, engine, popen, history_appended,
                               query_echo, scope_stack, restored>>
            ELSE \E st \in {advance(stepper, shown, answer)} :
                /\ stepper' = st
                /\ IF st.start_index < Len(split(st.text)) THEN
                       UNCHANGED <<default_command, last, last_exit, cwd, output, app, pc, text,
                                   dispatched, printed, raised, engine, popen,
                                   history_appended, query_echo, scope_stack, restored>>
                   ELSE \E o \in Outcomes : \E e \in {cli_execute(st.cmd, o)} :
                       /\ engine' = o
                       /\ dispatched' = [to |-> "engine", cmd |-> st.cmd]
                       /\ last' = e.last
                       /\ last_exit' = e.last_exit
                       /\ printed' = printed \o e.printed
                       /\ raised' = e.raised
                       /\ pc' = IF raised' \in CaughtByRun \/ raised' = "none" THEN "done"
                                ELSE "crashed"
                       /\ UNCHANGED <<default_command, cwd, output, app, text, popen,
                                      history_appended, query_echo, scope_stack, restored>>

\* lines 455-456: example_cli.run() returns nothing; example_repl returns
\* "", True and run() continues
ExampleCancel ==
    /\ pc = "example_repl"
    /\ pc' = "done"
    /\ submission' = [kind |-> "cancel", text |-> <<>>]
    /\ stepper' = NoStepper
    /\ UNCHANGED pane_vars
    /\ UNCHANGED thread_vars
    /\ UNCHANGED toolbar_vars
    /\ UNCHANGED <<default_command, last, last_exit, cwd, output, app, text, dispatched,
                   printed, raised, engine, popen, history_appended, query_echo,
                   scope_stack, restored>>

\* nothing rendered yet
NoDocs == [example |-> <<>>, page_number |-> <<>>, paged |-> FALSE]

\* the shell after __init__
ShellInit ==
    /\ default_command = <<>>
    /\ last = "None"
    /\ last_exit = 0
    /\ cwd = <<"/", "s">>
    /\ output \in BOOLEAN
    /\ app \in BOOLEAN
    /\ pc = "prompt"
    /\ text = <<>>
    /\ dispatched = Nothing
    /\ printed = <<>>
    /\ raised = "none"
    /\ engine = NotInvoked
    /\ popen = NotRun
    /\ stepper = NoStepper
    /\ submission = NoSubmission
    /\ history_appended = FALSE
    /\ query_echo = NoEcho
    /\ scope_stack = <<>>
    /\ restored = "none"
    /\ completer = "previous"
    /\ refresh_cli = FALSE
    /\ cli_completer = "None"
    /\ cli_pc = "out"
    /\ loader = [pc |-> "started", obj |-> "None"]
    /\ curr_thread = NoThread
    /\ progress_thread = "None"

\* the pane before anything is rendered
PaneIdle ==
    /\ section = 1
    /\ section_value = 1
    /\ example_docs = NoDocs
    /\ render_pc = "idle"
    /\ frame = [num_newline |-> 0, len_of_excerpt |-> 0]
    /\ passes = 0

\* no toolbar yet, and a shell made with user_feedback=False
NoFeedback ==
    /\ toolbar = "none"
    /\ user_feedback = FALSE

Init ==
    /\ ShellInit
    /\ rows = 0
    /\ list_examples = <<>>
    /\ PaneIdle
    /\ NoFeedback

Next ==
    \/ \E line \in Lines : Input(line)
    \/ Prompt
    \/ EndOfInput
    \/ \E kind \in AnswerKinds : ExampleAnswer(kind)
    \/ ExampleCancel

Spec == Init /\ [][Next]_vars

\* the shell of a user who takes tutorials, and who in the sub-REPL goes on
\* to submit a line that differs from the buffer presented
DifferingKinds == AnswerKinds \ {"same"}

StepperNext ==
    \/ \E line \in ExampleLines : Input(line)
    \/ Prompt
    \/ EndOfInput
    \/ \E kind \in AnswerKinds : ExampleAnswer(kind)
    \/ ExampleCancel

StepperSpec ==
    /\ Init
    /\ [][StepperNext]_vars
    /\ WF_vars(\E kind \in DifferingKinds : ExampleAnswer(kind))

(***************************************************************************)
(* _space_examples: the text of the example pane and its pages             *)
(***************************************************************************)
NL == "\n"

\* example.count('\n')
count_newlines(s) == Cardinality({k \in 1..Len(s) : s[k] = NL})

\* example.split('\n')
RECURSIVE split_lines(_)
split_lines(s) ==
    The({IF i = 0 THEN <<s>> ELSE <<Upto(s, i - 1)>> \o split_lines(From(s, i)) :
         i \in {find(s, <<NL>>)}})

\* group[begin:end] for begin, end >= 0: Python clips the bounds to the list
pyslice(group, begin, end) ==
    LET b == IF begin < Len(group) THEN begin ELSE Len(group)
        e == IF end < Len(group) THEN end ELSE Len(group)
    IN  [k \in 1..(IF e > b THEN e - b ELSE 0) |-> group[b + k]]

\* PART_SCREEN_EXAMPLE = .3, in tenths
PART_SCREEN_EXAMPLE == 3

\* num_newline > rows * PART_SCREEN_EXAMPLE and rows > PART_SCREEN_EXAMPLE * 10
paginates(num_newline, window_rows) ==
    /\ 10 * num_newline > window_rows * PART_SCREEN_EXAMPLE
    /\ window_rows > PART_SCREEN_EXAMPLE

\* math.floor(float(rows) * PART_SCREEN_EXAMPLE)
excerpt_len(window_rows) == (window_rows * PART_SCREEN_EXAMPLE) \div 10

page_count_floor(num_newline, len_of_excerpt) == num_newline \div len_of_excerpt

\* int(math.ceil(num_newline / len_of_excerpt))
page_count(num_newline, len_of_excerpt) ==
    (num_newline + len_of_excerpt - 1) \div len_of_excerpt

\* lines 212-217: "[i] " + header + body of every example, one after the other
RECURSIVE examples_with_index(_, _)
examples_with_index(examples, i) ==
    IF i > Len(examples) THEN <<>>
    ELSE The({<<"[">> \o str_int(i) \o <<"]", SP>> \o examples[i][1] \o examples[i][2] \o rest :
              rest \in {examples_with_index(examples, i + 1)}})

\* the test of the while loop of line 233
past_the_end(value, len_of_excerpt, num_newline) == (value - 1) * len_of_excerpt > num_newline

\* _space_examples(list_examples, rows, section_value) up to its while loop:
\* the text, the page number, and whether the while loop is entered
space_examples(examples, window_rows, value) ==
    LET example == examples_with_index(examples, 1)
        num_newline == count_newlines(example)
        len_of_excerpt == excerpt_len(window_rows)
        group == split_lines(example)
        end == value * len_of_excerpt
        begin == (value - 1) * len_of_excerpt
        page_number == <<NL>> \o str_int(value) \o <<"/">>
                       \o str_int(page_count(num_newline, len_of_excerpt))
        locals == [num_newline |-> num_newline, len_of_excerpt |-> len_of_excerpt]
    IN  IF ~paginates(num_newline, window_rows) THEN
            [example |-> example, page_number |-> <<>>, paged |-> FALSE, loops |-> FALSE,
             locals |-> locals]
        ELSE IF end < num_newline THEN
            [example |-> join(<<NL>>, pyslice(group, begin, end)) \o <<NL>>,
             page_number |-> page_number, paged |-> TRUE, loops |-> FALSE,
             locals |-> locals]
        ELSE
            [example |-> join(<<NL>>, pyslice(group, begin, Len(group))) \o <<NL>>,
             page_number |-> page_number, paged |-> TRUE,
             loops |-> past_the_end(value, len_of_excerpt, num_newline),
             locals |-> locals]

\* what _space_examples returns (before the hint ' CTRL+Y (^) CTRL+N (v)')
docs(r) == [example |-> r.example, page_number |-> r.page_number, paged |-> r.paged]

(***************************************************************************)
(* The example pane: windows, examples and pages                           *)
(***************************************************************************)
MaxExamples == 3

MaxSection == 5

\* self._section below this value is not told apart
SectionFloor == 0

WindowRows == {3, 4, 7, 10}

\* no _space_examples is running
NoFrame == [num_newline |-> 0, len_of_excerpt |-> 0]

ExampleHeaders == {<<"h", NL>>}

\* a body of one line, one of two lines, and one whose last line has no newline
ExampleBodies == {<<"b", NL>>, <<"b", NL, "c", NL>>, <<"b">>}

ExampleLists ==
    UNION {[1..n -> {<<h, b>> : h \in ExampleHeaders, b \in ExampleBodies}] : n \in 0..MaxExamples}

\* on_input_timeout: generate_help_text calls _space_examples(examples, rows,
\* self._section), whose while loop is entered or not
Render ==
    /\ render_pc = "idle"
    /\ section_value' = section
    /\ passes' = 0
    /\ \E r \in {space_examples(list_examples, rows, section)} :
         IF r.loops THEN
             /\ render_pc' = "clamp"
             /\ frame' = r.locals
             /\ UNCHANGED example_docs
         ELSE
             /\ render_pc' = "idle"
             /\ frame' = NoFrame
             /\ example_docs' = docs(r)
    /\ UNCHANGED <<rows, list_examples, section>>
    /\ UNCHANGED shell_vars
    /\ UNCHANGED thread_vars
    /\ UNCHANGED toolbar_vars

\* one pass of the while loop of lines 233-234, and its test again
ClampPass ==
    /\ render_pc = "clamp"
    /\ section' = IF section > SectionFloor THEN section - 1 ELSE section
    /\ passes' = 1 - passes
    /\ IF past_the_end(section_value, frame.len_of_excerpt, frame.num_newline) THEN
           UNCHANGED <<render_pc, frame, example_docs>>
       ELSE
           /\ render_pc' = "idle"
           /\ frame' = NoFrame
           /\ example_docs' = docs(space_examples(list_examples, rows, section_value))
    /\ UNCHANGED <<rows, list_examples, section_value>>
    /\ UNCHANGED shell_vars
    /\ UNCHANGED thread_vars
    /\ UNCHANGED toolbar_vars

\* the key binding of the next page: self._section += 1
NextSection ==
    /\ render_pc = "idle"
    /\ section < MaxSection
    /\ section' = section + 1
    /\ UNCHANGED <<rows, list_examples, section_value, example_docs, render_pc, frame, passes>>
    /\ UNCHANGED shell_vars
    /\ UNCHANGED thread_vars
    /\ UNCHANGED toolbar_vars

PaneInit ==
    /\ ShellInit
    /\ rows \in WindowRows
    /\ list_examples \in ExampleLists
    /\ PaneIdle
    /\ NoFeedback

PaneNext == Render \/ ClampPass \/ NextSection

\* the thread that renders runs on while it can
PaneSpec == PaneInit /\ [][PaneNext]_vars /\ WF_vars(ClampPass)

(***************************************************************************)
(* The threads beside the main loop: the loader of the command table,      *)
(* which run() starts with restart_completer as its target, and the two    *)
(* threads cli_execute starts for a command with '--progress'              *)
(***************************************************************************)
\* GatherCommands(shell_ctx.config) returns, or raises
LoaderGather ==
    /\ loader.pc = "started"
    /\ \E ok \in BOOLEAN : loader' = [loader EXCEPT !.pc = IF ok THEN "gathered" ELSE "failed"]
    /\ UNCHANGED <<completer, refresh_cli, cli_completer, cli_pc>>
    /\ UNCHANGED <<shell_vars, pane_vars, exec_vars, toolbar_vars>>

\* AzCompleter(shell_ctx, ...) is called: the object exists, half built
LoaderConstruct ==
    /\ loader.pc = "gathered"
    /\ loader' = [pc |-> "constructing", obj |-> "half-built"]
    /\ UNCHANGED <<completer, refresh_cli, cli_completer, cli_pc>>
    /\ UNCHANGED <<shell_vars, pane_vars, exec_vars, toolbar_vars>>

\* AzCompleter(shell_ctx, ...) returns the object, or raises
LoaderConstructed ==
    /\ loader.pc = "constructing"
    /\ \E ok \in BOOLEAN :
         loader' = IF ok THEN [pc |-> "built", obj |-> "new"]
                   ELSE [pc |-> "failed", obj |-> "None"]
    /\ UNCHANGED <<completer, refresh_cli, cli_completer, cli_pc>>
    /\ UNCHANGED <<shell_vars, pane_vars, exec_vars, toolbar_vars>>

assignable_early(l) == l.pc \in {"constructing", "built"}

\* line 84: the attribute is stored when the expression on the right has
\* its value
assignable(l) == l.pc = "built"

\* line 84: shell_ctx.completer = ...
LoaderAssign ==
    /\ assignable(loader)
    /\ completer' = loader.obj
    /\ loader' = [loader EXCEPT !.pc = "assigned"]
    /\ UNCHANGED <<refresh_cli, cli_completer, cli_pc>>
    /\ UNCHANGED <<shell_vars, pane_vars, exec_vars, toolbar_vars>>

\* line 85: shell_ctx.refresh_cli = True, and the thread ends
LoaderSignal ==
    /\ loader.pc = "assigned"
    /\ refresh_cli' = TRUE
    /\ loader' = [loader EXCEPT !.pc = "finished"]
    /\ UNCHANGED <<completer, cli_completer, cli_pc>>
    /\ UNCHANGED <<shell_vars, pane_vars, exec_vars, toolbar_vars>>

\* the property cli, read by run() and by on_input_timeout while the shell
\* waits for a line: lines 162-163, create_interface takes self.completer
CliCreate ==
    /\ pc = "prompt"
    /\ cli_pc = "out"
    /\ cli_completer = "None" \/ refresh_cli
    /\ cli_completer' = completer
    /\ cli_pc' = "store"
    /\ UNCHANGED <<completer, refresh_cli, loader>>
    /\ UNCHANGED <<shell_vars, pane_vars, exec_vars, toolbar_vars>>

\* line 164: self.refresh_cli = False
CliStore ==
    /\ cli_pc = "store"
    /\ refresh_cli' = FALSE
    /\ cli_pc' = "out"
    /\ UNCHANGED <<completer, cli_completer, loader>>
    /\ UNCHANGED <<shell_vars, pane_vars, exec_vars, toolbar_vars>>

\* the thread of self.app.execute(args) ends, with whatever execute did;
\* the thread stores nothing in the shell
ExecuteReturns(o) ==
    /\ curr_thread.state = "running"
    /\ curr_thread' = [curr_thread EXCEPT !.state = "finished", !.outcome = o]
    /\ UNCHANGED progress_thread
    /\ UNCHANGED <<shell_vars, pane_vars, loader_vars, toolbar_vars>>

\* the thread of progress_view ends when that of execute has ended
ProgressViewReturns ==
    /\ progress_thread = "running"
    /\ curr_thread.state = "finished"
    /\ progress_thread' = "finished"
    /\ UNCHANGED curr_thread
    /\ UNCHANGED <<shell_vars, pane_vars, loader_vars, toolbar_vars>>

\* the lines of the shell that runs beside its threads
ThreadLines ==
    {<<"v">>, <<"v", SP>> \o W_progress, W_progress \o <<SP, "v", SP>> \o W_progress}

ThreadNext ==
    \/ \E line \in ThreadLines : Input(line)
    \/ Prompt
    \/ EndOfInput
    \/ LoaderGather
    \/ LoaderConstruct
    \/ LoaderConstructed
    \/ LoaderAssign
    \/ LoaderSignal
    \/ CliCreate
    \/ CliStore
    \/ \E o \in Outcomes : ExecuteReturns(o)
    \/ ProgressViewReturns

ThreadSpec == Init /\ [][ThreadNext]_vars

\* the loader beside a main loop that goes on: the user submits lines, run()
\* reads self.cli in every pass (line 696), and the loader thread runs
LoaderLines == {<<"v">>}

LoaderNext ==
    \/ \E line \in LoaderLines : Input(line)
    \/ Prompt
    \/ EndOfInput
    \/ LoaderGather
    \/ LoaderConstruct
    \/ LoaderConstructed
    \/ LoaderAssign
    \/ LoaderSignal
    \/ CliCreate
    \/ CliStore

LoaderSpec ==
    /\ Init
    /\ [][LoaderNext]_vars
    /\ WF_vars(\E line \in LoaderLines : Input(line))
    /\ WF_vars(Prompt)
    /\ SF_vars(CliCreate)
    /\ WF_vars(CliStore)
    /\ WF_vars(LoaderGather)
    /\ WF_vars(LoaderConstruct)
    /\ WF_vars(LoaderConstructed)
    /\ WF_vars(LoaderAssign)
    /\ WF_vars(LoaderSignal)

(***************************************************************************)
(* The bottom toolbar                                                      *)
(***************************************************************************)
\* self.command_table_thread.is_alive()
is_alive(l) == l.pc \notin {"finished", "failed"}

\* lines 246-257: the toolbar _update_toolbar chooses; in_display_time is
\* delta.seconds < DISPLAY_TIME
update_toolbar(feedback, in_display_time, alive) ==
    IF feedback /\ in_display_time THEN "feedback"
    ELSE IF alive THEN "loading"
    ELSE "info"

\* on_input_timeout calls _update_toolbar while the shell waits for a line
UpdateToolbar(in_display_time) ==
    /\ pc = "prompt"
    /\ cli_pc = "out"
    /\ toolbar' = update_toolbar(user_feedback, in_display_time, is_alive(loader))
    /\ UNCHANGED user_feedback
    /\ UNCHANGED <<shell_vars, pane_vars, thread_vars>>

ToolbarLines == {<<"v">>, W_feedback}

\* the shell is made with user_feedback or without
ToolbarInit ==
    /\ ShellInit
    /\ rows = 0
    /\ list_examples = <<>>
    /\ PaneIdle
    /\ toolbar = "none"
    /\ user_feedback \in BOOLEAN

ToolbarNext ==
    \/ \E line \in ToolbarLines : Input(line)
    \/ Prompt
    \/ EndOfInput
    \/ LoaderGather
    \/ LoaderConstruct
    \/ LoaderConstructed
    \/ LoaderAssign
    \/ LoaderSignal
    \/ CliCreate
    \/ CliStore
    \/ \E in_display_time \in BOOLEAN : UpdateToolbar(in_display_time)

ToolbarSpec == ToolbarInit /\ [][ToolbarNext]_vars

(***************************************************************************)
(* Properties                                                              *)
(***************************************************************************)
\* a step that is one pass of the loop of run() over a submitted line
InputStep == pc = "prompt" /\ (pc' \in {"done", "crashed", "example_repl"} \/ text' # <<>>)

\* C1: narrowing by accepted scope tokens and then widening as many times
\* leaves default_command exactly as it was before the narrowing: no widening
\* ends in a value other than the one saved by the narrowing it undoes.
C1_WidenRestoresExactly == restored # "differs"

\* C2: default_command is always the empty string or a prefix that in_tree
\* finds in the command tree.
C2_DefaultCommandInTree == default_command = <<>> \/ in_tree(command_tree, default_command)

C2_Witness == pc = "done" /\ restored # "none" /\ default_command # <<>>

\* the rules of the classifier that take a line away from the default rule:
\* quit/exit, clear-history, clear-screen, outside execution, exit code, query
\* (with a last result that counts as true), version, pipe or redirect,
\* example, scope (more than two characters, the first two the marker)
Intercepted(line) ==
    LET s == strip(line)
        args == parse_quotes(line)
    IN  \/ s \in {W_quit, W_exit, W_clear_history, CLEAR_WORD}
        \/ /\ s # <<>>
           /\ \/ s[1] \in {SYM_outside, SYM_exit_code}
              \/ contains(s, SYM_query) /\ truthy(last)
              \/ args # <<>> /\ args[1] \in {W_version, W_v}
              \/ contains(line, <<"|">>) \/ contains(line, <<">">>)
              \/ contains(line, SYM_example)
              \/ Len(s) > 2 /\ Upto(s, 2) = SYM_scope

\* the line without the word az (in any case) that starts it, the other words
\* joined by one space each
WithoutAz(line) ==
    LET words == split(line)
    IN  IF words # <<>> /\ line[1] # SP /\ lower(words[1]) = W_az
        THEN join(<<SP>>, Tail(words)) ELSE line

C4_ReturnStoresResult ==
    (pc = "done" /\ engine.kind = "return") =>
        (last_exit = 0 /\ (engine.result \in Results => last = engine.result))

\* C5: no line and no outcome of the engine makes an error leave run().
C5_NoErrorEscapes == pc # "crashed"

\* the text after the outside marker is a cd command
IsCd(line) ==
    LET s == strip(line)
    IN  /\ s # <<>>
        /\ s[1] = SYM_outside
        /\ split(From(s, 1)) # <<>>
        /\ split(From(s, 1))[1] = W_cd

CdArgs(line) == parse_quotes(From(strip(line), 1))

\* C6: a line that starts with the outside marker followed by a cd command
\* either makes the resolved path the working directory, or prints an error
\* and leaves the working directory; nothing goes to the engine or to the OS
\* shell and last_exit is unchanged.
C6_CdHandledLocally ==
    [][InputStep /\ IsCd(text') =>
          /\ pc' = "done"
          /\ raised' = "none"
          /\ dispatched' = Nothing
          /\ engine' = NotInvoked
          /\ last_exit' = last_exit
          /\ \/ /\ Len(CdArgs(text')) = 2
                /\ cwd' = expanduser(CdArgs(text')[2])
                /\ printed' = <<>>
             \/ /\ printed' # <<>>
                /\ cwd' = cwd]_vars

C6_Witness ==
    /\ pc = "done"
    /\ IsCd(text)
    /\ Len(CdArgs(text)) = 2
    /\ cwd = expanduser(CdArgs(text)[2])
    /\ CdArgs(text)[2] # cwd
    /\ printed = <<>>

\* the line is one argument that starts with the query symbol, and there is
\* a last result for it
PrintedPath(line) ==
    /\ truthy(last)
    /\ Len(parse_quotes(line)) = 1
    /\ startswith(parse_quotes(line)[1], SYM_query)

QueryFails(line) ==
    \E k \in 1..Len(parse_quotes(line)) :
        LET arg == parse_quotes(line)[k]
            match == From(arg, find(arg, SYM_query) - 1)
        IN  /\ contains(arg, SYM_query)
            /\ match # SYM_query
            /\ jmespath_search(From(match, Len(SYM_query)), last).kind # "ok"

\* C8: with a last result, a line whose query is malformed or fails prints
\* "Invalid Query Input", raises nothing, hands nothing over, leaves
\* self.last, and the loop goes on.
C8_InvalidQueryReported ==
    [][InputStep /\ last # "None" /\ QueryFails(text') =>
          /\ printed' = invalid.printed
          /\ raised' = "none"
          /\ pc' = "done"
          /\ dispatched' = Nothing
          /\ engine' = NotInvoked
          /\ last' = last]_vars

\* C9: an empty or blank line is a no-op: nothing is handed over and
\* self.last, last_exit and default_command stay as they are.
C9_BlankLineNoOp ==
    [][InputStep /\ strip(text') = <<>> =>
          /\ dispatched' = Nothing
          /\ engine' = NotInvoked
          /\ last' = last
          /\ last_exit' = last_exit
          /\ default_command' = default_command]_vars

\* C10: the line clear-history hands the OS shell exactly the command that
\* truncates the history file.
C10_ClearHistoryTruncates ==
    (pc \in {"done", "crashed"} /\ strip(text) = W_clear_history) =>
        dispatched = [to |-> "os", cmd |-> truncate_history]

\* what an iteration did with its line: the loop ended, the line was handled
\* in the shell, or a command went to the OS shell or to the engine
Observed ==
    IF pc = "exited" THEN <<"terminate", <<>>>>
    ELSE IF dispatched.to = "none" THEN <<"local", <<>>>>
    ELSE <<dispatched.to, dispatched.cmd>>

\* what run() does with a line that _special_cases classifies as r
Disposition(line, r) ==
    IF line = <<>> \/ r.raised # "none" THEN <<"local", <<>>>>
    ELSE IF r.brk THEN <<"terminate", <<>>>>
    ELSE IF r.execute THEN <<"engine", r.inject>>
    ELSE IF r.cont \/ r.repl THEN <<"local", <<>>>>
    ELSE IF r.outside THEN <<"os", r.cmd>>
    ELSE <<"engine", r.cmd>>

\* the first word of the line is az, in any case
StartsWithAz(line) == line # <<>> /\ WithoutAz(line) # line

\* C11: a line whose first word is az, with more words after it, gets the
\* disposition and the rewritten command that the rest of the line gets when
\* submitted alone in the same state.
C11_AzLineAsRemainder ==
    [][InputStep /\ StartsWithAz(text') /\ WithoutAz(text') # <<>> =>
          Observed' = Disposition(WithoutAz(text'),
                                  special_cases(WithoutAz(text'), "returns"))]_vars

\* C12: a line that is the scope symbol with no target makes default_command
\* empty, prints "unscoping all" and hands nothing over.
C12_ScopeAloneClears ==
    [][InputStep /\ strip(text') = SYM_scope =>
          /\ default_command' = <<>>
          /\ printed' = << <<"unscoping all", <<>>>> >>
          /\ dispatched' = Nothing]_vars

\* the line goes to handle_scoping_input: it starts with the scope symbol,
\* has more after it, and no earlier rule takes it
ScopeLine(line) ==
    LET s == strip(line)
    IN  /\ Len(s) > 2
        /\ Upto(s, 2) = SYM_scope
        /\ ~(contains(s, SYM_query) /\ truthy(last))
        /\ ~contains(line, <<"|">>) /\ ~contains(line, <<">">>)
        /\ ~contains(line, SYM_example)

\* the targets of a scope line
ScopeTargets(line) == split(partition(strip(line), SYM_scope)[3])

Applied(message) == message[1] \in {"defaulting: ", "unscoping: "}

\* C13: every target of a scope line prints one message; a target that is not
\* applied prints a diagnostic, "Scope must be a valid command" unless it is
\* the unscope marker, whatever the other targets are; and only the applied
\* targets change default_command.
C13_UnappliedTargetDiagnosed ==
    [][InputStep /\ ScopeLine(text') =>
          /\ Len(printed') = Len(ScopeTargets(text'))
          /\ \A k \in 1..Len(printed') :
                (~Applied(printed'[k]) /\ ScopeTargets(text')[k] # SYM_unscope)
                    => printed'[k] = <<"Scope must be a valid command", <<>>>>
          /\ (\A k \in 1..Len(printed') : ~Applied(printed'[k]))
                => default_command' = default_command]_vars

\* C14: after a command went to the OS shell, last_exit is the exit status of
\* the child; after one went to the engine, last_exit is 0 when invoke
\* returned, the code of the exit it asked for, and not 0 when it raised.
\* (What showing a returned result does to last_exit is C4.)
C14_LastExitOfDispatched ==
    pc = "done" =>
        /\ popen.ran => last_exit = popen.code
        /\ (engine.kind = "return" /\ engine.result = "Null") => last_exit = 0
        /\ engine.kind = "exit" => last_exit = engine.code
        /\ engine.kind = "raise" => last_exit # 0

\* the command _special_cases passes to handle_example for a line
ExampleCmd(line) ==
    IF default_command # <<>> THEN default_command \o <<SP>> \o WithoutAz(line)
    ELSE WithoutAz(line)

ExampleKey(line) == rstrip(partition(ExampleCmd(line), SYM_example)[1])

ExampleNum(line) == strip(partition(ExampleCmd(line), SYM_example)[3])

\* the line reaches the example rule and picks an example that exists
ChoosesExample(line) ==
    LET s == strip(line)
    IN  /\ s # <<>>
        /\ s \notin {W_quit, W_exit, W_clear_history, CLEAR_WORD}
        /\ s[1] \notin {SYM_outside, SYM_exit_code}
        /\ ~(contains(s, SYM_query) /\ truthy(last))
        /\ parse_quotes(line) # <<>>
        /\ parse_quotes(line)[1] \notin {W_version, W_v}
        /\ ~contains(line, <<"|">>) /\ ~contains(line, <<">">>)
        /\ contains(line, SYM_example)
        /\ ExampleKey(line) \in DOMAIN command_examples
        /\ is_int(ExampleNum(line))
        /\ int(ExampleNum(line)) \in 1..Len(command_examples[ExampleKey(line)])

\* the text of the chosen example
Chosen(line) == command_examples[ExampleKey(line)][int(ExampleNum(line))][2]

\* the example has a word that starts with the flag marker
Fillable(example) == \E k \in 1..Len(split(example)) : startswith(split(example)[k], <<"-">>)

\* C15 as stated: an example with no flag-marked word does not start the
\* sub-REPL, and its text, unchanged, is the command that run() gets.
C15_FlaglessExampleUnchanged ==
    [][InputStep /\ ChoosesExample(text') /\ ~Fillable(Chosen(text')) =>
          /\ pc' # "example_repl"
          /\ stepper' = NoStepper
          /\ dispatched' = [to |-> "engine", cmd |-> Chosen(text')]]_vars

\* C15 amended: an example with no flag-marked word does not start the
\* sub-REPL, and the command that run() gets is the words of its text, with
\* every az taken out of the text, each word followed by one space.
C15_FlaglessExampleWords ==
    [][InputStep /\ ChoosesExample(text') /\ ~Fillable(Chosen(text')) =>
          /\ pc' # "example_repl"
          /\ stepper' = NoStepper
          /\ dispatched' =
                [to |-> "engine",
                 cmd |-> join(<<SP>>, split(replace(Chosen(text'), W_az, <<>>))) \o <<SP>>]]_vars

C15_Witness ==
    /\ pc = "done"
    /\ ChoosesExample(text)
    /\ ~Fillable(Chosen(text))
    /\ submission = NoSubmission
    /\ dispatched = [to |-> "engine", cmd |-> <<"g", SP, "v", SP>>]

\* the example text of the pane, the number N of its newlines and the pieces
\* between them: N lines, and the piece after the last newline
PaneText == examples_with_index(list_examples, 1)

PaneN == count_newlines(PaneText)

PanePieces == split_lines(PaneText)

\* floor(R * 0.3)
PageLen == CHOOSE l \in 0..rows : 10 * l <= 3 * rows /\ 10 * (l + 1) > 3 * rows

\* ceil(N / floor(R * 0.3))
PageCount == CHOOSE p \in 0..PaneN : p * PageLen >= PaneN /\ (p = 0 \/ (p - 1) * PageLen < PaneN)

\* the pieces with 0-based indices in [a, b), each followed by a newline
RECURSIVE PieceLines(_, _)
PieceLines(a, b) ==
    IF a >= b THEN <<>>
    ELSE The({PanePieces[a + 1] \o <<NL>> \o rest : rest \in {PieceLines(a + 1, b)}})

PageNumber == <<NL>> \o str_int(section_value) \o <<"/">> \o str_int(PageCount)

\* C16 as stated: when the text is paged, the page count shown is
\* ceil(N / floor(R * 0.3)) and the text of page P is the lines with indices
\* in [(P-1) * floor(R * 0.3), P * floor(R * 0.3)) clipped to N.
C16_PageIsSliceClippedToN ==
    (render_pc = "idle" /\ example_docs.paged) =>
        /\ example_docs.page_number = PageNumber
        /\ example_docs.example =
              PieceLines((section_value - 1) * PageLen,
                         IF section_value * PageLen < PaneN THEN section_value * PageLen
                         ELSE PaneN)

\* C16 amended: the page count shown is ceil(N / floor(R * 0.3)); the text of
\* page P is the lines with indices in [(P-1) * floor(R * 0.3),
\* P * floor(R * 0.3)) when P * floor(R * 0.3) < N, and otherwise every piece
\* from (P-1) * floor(R * 0.3) on, the piece after the last newline included.
C16_PageIsSliceOrRest ==
    (render_pc = "idle" /\ example_docs.paged) =>
        /\ example_docs.page_number = PageNumber
        /\ example_docs.example =
              PieceLines((section_value - 1) * PageLen,
                         IF section_value * PageLen < PaneN THEN section_value * PageLen
                         ELSE PaneN + 1)

C16_Witness ==
    /\ render_pc = "idle"
    /\ example_docs.paged
    /\ section_value = 2
    /\ PageCount = 3
    /\ PageLen = 2
    /\ example_docs.example = PieceLines(2, 4)

\* C17: rendering the pane returns, whatever the page index is.
C17_RenderReturns == (render_pc = "clamp") ~> (render_pc = "idle")


\* C18: in every interleaving of the loader thread with the main loop, the
\* provider of the shell and the one its interface was created with are the
\* previous provider or the new one, fully constructed, and never the
\* half-built one; when the rebuild fails, the previous provider stays.
C18_ProviderPreviousOrBuilt ==
    /\ completer \in {"previous", "new"}
    /\ cli_completer \in {"None", "previous", "new"}
    /\ loader.pc = "failed" => completer = "previous" /\ cli_completer # "new"

C18_Witness ==
    /\ loader.pc = "assigned"
    /\ completer = "new"
    /\ cli_completer = "new"
    /\ cli_pc = "store"
    /\ last = "R1"

\* a step of the thread of self.app.execute or of that of progress_view
ThreadStep == curr_thread' # curr_thread \/ progress_thread' # progress_thread

ProgressDispatch == pc = "prompt" /\ pc' # "prompt" /\ progress_mode(text')

\* C19: the loop pass that dispatches a command with the progress flag leaves
\* self.last as it was, and so does every step of the two threads, whatever
\* execute returns; the steps of the threads leave self.last_exit and
\* self.default_command as they were too.
C19_ProgressLeavesLast ==
    [][/\ ProgressDispatch => last' = last
       /\ (ThreadStep /\ ~ProgressDispatch) =>
              UNCHANGED <<last, last_exit, default_command>>]_vars

C19_Witness ==
    /\ curr_thread.state = "finished"
    /\ curr_thread.outcome.kind = "return"
    /\ curr_thread.outcome.result = "R1"
    /\ curr_thread.args = << <<"v">> >>
    /\ progress_thread = "finished"
    /\ last = "R0"
    /\ dispatched.to = "thread"


\* one cycle of the sub-REPL of example_repl on a submission
StepperCycle == pc = "example_repl" /\ submission'.kind = "text"

\* the submission has a token more than the buffer that was presented
AdditionalToken(shown, answer) == Len(split(answer)) > Len(split(shown))

\* C20: in a cycle of the stepper, a submission equal to the presented buffer
\* presents the same cycle again; one that differs and has a token more than
\* the presented buffer appends its last token and advances to the next
\* fillable position; one that differs and has no such token ends the
\* stepper, which returns the command assembled so far.
C20_StepperCycleOutcomes ==
    [][StepperCycle =>
          \E shown \in {presented(stepper.cmd)} : \E answer \in {submission'.text} :
             IF answer = shown THEN
                 /\ pc' = "example_repl"
                 /\ stepper'.start_index = stepper.start_index
                 /\ stepper'.cmd = shown
             ELSE IF AdditionalToken(shown, answer) THEN
                 /\ stepper'.start_index = stepper.start_index + 1
                 /\ \E rest \in {From(stepper'.cmd, Len(shown))} :
                        /\ split(rest) # <<>>
                        /\ split(rest)[1] = split(answer)[Len(split(answer))]
             ELSE
                 /\ pc' # "example_repl"
                 /\ dispatched' = [to |-> "engine", cmd |-> shown]]_vars


\* C21: the sub-REPL of example_repl is bounded: the fill position only
\* grows and never passes the number of words of the template, and when the
\* user goes on to cancel or to submit a line that differs from the buffer
\* presented, the stepper ends and run() goes on.
C21_FillPositionBounded ==
    [][StepperCycle =>
          /\ stepper'.start_index >= stepper.start_index
          /\ stepper'.start_index <= Len(split(stepper.text))]_vars

C21_StepperTerminates == (pc = "example_repl") ~> (pc # "example_repl")


\* run() has left its loop
LoopOver == pc \in {"exited", "crashed"}

\* C22: the signal of the loader is not lost: once restart_completer has
\* stored the new provider and set refresh_cli, the main loop, while it runs,
\* comes to rebuild the interface with the new provider.
C22_RefreshNotLost == (loader.pc = "finished") ~> (cli_completer = "new" \/ LoopOver)


\* C23: an update of the toolbar while the loader thread is alive shows the
\* loading state, whatever the state of the session is.
C23_LoadingWhileAlive ==
    [][(toolbar' # toolbar /\ is_alive(loader)) => toolbar' = "loading"]_vars


\* the query of an argument that holds the query symbol, and its value
QueryOf(arg) == From(arg, find(arg, SYM_query) - 1 + Len(SYM_query))

QueryValue(arg) ==
    IF QueryOf(arg) = <<>> THEN [kind |-> "ok", val |-> str_result(last)]
    ELSE jmespath_search(QueryOf(arg), last)

\* the line has several arguments, some hold the query symbol, and every
\* query has a value
InjectionLine(line) ==
    \E args \in {parse_quotes(line)} :
        /\ Len(args) > 1
        /\ \E k \in 1..Len(args) : contains(args[k], SYM_query)
        /\ \A k \in 1..Len(args) :
               contains(args[k], SYM_query) => QueryValue(args[k]).kind = "ok"

\* the arguments, with the suffix from the query symbol on replaced by the
\* string of the value
Rewritten(line) ==
    [k \in 1..Len(parse_quotes(line)) |->
        LET arg == parse_quotes(line)[k]
        IN  IF contains(arg, SYM_query)
            THEN Upto(arg, find(arg, SYM_query) - 1) \o QueryValue(arg).val
            ELSE arg]

\* C24: with a last result, a line of several arguments of which some hold
\* the query symbol is executed once by cli_execute with each such argument
\* rewritten, the suffix from the symbol on replaced by the string of the
\* value of the query; it is not printed, and run() does not dispatch the
\* original line.
C24_InjectedLineExecutedOnce ==
    [][(InputStep /\ last # "None" /\ InjectionLine(text')) =>
          /\ dispatched'.to = "engine"
          /\ parse_quotes(dispatched'.cmd) = Rewritten(text')
          /\ \A k \in 1..Len(printed') : printed'[k][1] \notin {"json", "Usage Error: "}]_vars


\* C25: while default_command is not empty, every command cli_execute hands
\* to the engine, from the default rule, from the query injection and from
\* the stepper of the tutorial, starts with default_command and a space.
C25_EngineCommandPrefixed ==
    [][(dispatched' # dispatched /\ dispatched'.to = "engine" /\ default_command' # <<>>) =>
          startswith(dispatched'.cmd, default_command' \o <<SP>>)]_vars

====
